---- MODULE Spec2Model ----
(***************************************************************************)
(* Lynx Hot Update: the distribution endpoint's update resolver (the       *)
(* check-update, publish and patch handlers of the update server), the     *)
(* Android client agent (download, verify, stage, apply at launch,         *)
(* confirm, roll back), the delta packaging tool (diff, build, apply) and  *)
(* the command line's local release store (publish, patch, promote,        *)
(* rollback).                                                              *)
(***************************************************************************)
EXTENDS Integers, Sequences, FiniteSets, TLC

VARIABLES
    releases,   \* the scope's stored release list, newest first (releases file)
    http,       \* the exchange the server has answered and not yet delivered
    diffPackages, \* the delta package files in the server's packages directory
    prefs,      \* the client's SharedPreferences (version records)
    bundleDir,  \* lynx_bundles: the generation the runtime loads
    pendingDir, \* lynx_pending: the staged generation
    backupDir,  \* lynx_bundles_backup: the generation rollback restores
    tempFile,   \* the downloaded package file in the cache directory
    result,     \* the UpdateResult the running process holds from its last check
    completion, \* the last value handed to downloadUpdate's onComplete callback
    hist,       \* history of the last apply: what was current before, launches and rollbacks since
    delta,      \* the delta tool: the two directories, the built package, the output directory
    config,     \* lynx-update.json: the serverType the project was initialised with
    store,      \* .lynx-releases: the command line's release lists, one per scope
    outcome,    \* what the last command of the command line reported
    otherReleases, \* the stored release list of a second scope (another deployment key)
    stats,      \* stats.json: per deployment key, the number of recorded actions
    recording,  \* per deployment key, the recordStats call in flight: the stats it read
    race,       \* a publish and a patch request in flight on one scope: what each read
    staging     \* the coroutines downloadUpdate launched, and the entries of lynx_pending

vars == <<releases, http, diffPackages, prefs, bundleDir, pendingDir, backupDir,
          tempFile, result, completion, hist, delta, config, store, outcome,
          otherReleases, stats, recording, race, staging>>

serverVars == <<releases, http, diffPackages>>
toolVars == <<delta>>
cliVars == <<config, store, outcome>>
statsVars == <<otherReleases, stats, recording>>
raceVars == <<race, staging>>
clientVars == <<prefs, bundleDir, pendingDir, backupDir, tempFile, result,
                completion, hist>>

----------------------------------------------------------------------------
(* Bounds *)

\* longest release list a scope grows to
MaxReleases == 2

\* the launches without confirmation after which checkAutoRollback rolls back
LaunchThreshold == 3

(* Values *)

\* a Kotlin null / an absent preference
Null == "null"
\* a request field that was not sent (undefined in the handler, which is falsy)
Absent == ""
\* the wildcard binary range
Wildcard == "*"

\* version strings releases are published under
ReleaseVersions == {"1.5.0", "2.0.0", "beta"}
\* version strings a client may report as its current version
ClientVersions == {"0.0.0", "1.5.0", "2.0.0", "beta"}
\* host binary versions a request may carry: none, one inside and one outside
\* the range of TargetRanges, and one that is no semantic version
AppVersions == {Absent, "1.0.0", "3.0.0", "dev"}
\* rollout percentages a stored release may hold
Rollouts == {0, 50, 100}
\* samples of Math.random() * 100, a value of [0, 100): both ends and the
\* boundary of the one intermediate rollout percentage
Samples == {0, 49, 50, 99}
\* binary ranges a release may target
TargetRanges == {Wildcard, "^1.0.0"}

----------------------------------------------------------------------------
(* The semver library, on the version strings of the model *)

\* semver.valid: the parsed <<major, minor, patch>>, or <<>> when the string
\* is not a semantic version
semverParse(v) ==
    CASE v = "0.0.0" -> <<0, 0, 0>>
      [] v = "1.0.0" -> <<1, 0, 0>>
      [] v = "1.5.0" -> <<1, 5, 0>>
      [] v = "2.0.0" -> <<2, 0, 0>>
      [] v = "3.0.0" -> <<3, 0, 0>>
      [] OTHER -> <<>>

semverValid(v) == semverParse(v) # <<>>

\* precedence of two parsed versions
tripleGt(a, b) ==
    \/ a[1] > b[1]
    \/ a[1] = b[1] /\ a[2] > b[2]
    \/ a[1] = b[1] /\ a[2] = b[2] /\ a[3] > b[3]

\* semver.gt, called only on valid versions
semverGt(a, b) == tripleGt(semverParse(a), semverParse(b))

\* semver.satisfies(version, range): "^1.0.0" is >=1.0.0 <2.0.0
semverSatisfies(v, range) ==
    /\ semverValid(v)
    /\ CASE range = Wildcard -> TRUE
         [] range = "^1.0.0" -> /\ ~tripleGt(<<1, 0, 0>>, semverParse(v))
                                /\ tripleGt(<<2, 0, 0>>, semverParse(v))
         [] OTHER -> FALSE

----------------------------------------------------------------------------
(* Release store and resolver (update server) *)

\* the SHA-256 digest of a file's bytes, taken as collision-free
calculateFileHash(pkg) == <<"sha256", pkg>>
\* the length in bytes of a package file
packageSize(pkg) == <<"bytes", pkg>>

\* the names of the files of the packages directory: the full package saved by
\* a publish (savedFilename, unique by its Date.now()) and the delta package
\* from one version to another
FullFilename(id) == [kind |-> "full", id |-> id, from |-> Null, to |-> Null]
DiffFilename(from, to) == [kind |-> "diff", id |-> 0, from |-> from, to |-> to]

\* the release record POST /api/releases stores; id stands for the unique
\* saved filename, and so for the package bytes. The hash is the one the
\* publish command computed from the file it uploads.
Release(id, version, rollout, target) ==
    [id |-> id, version |-> version, rollout |-> rollout,
     targetBinaryVersion |-> target, disabled |-> FALSE,
     filename |-> FullFilename(id), hash |-> calculateFileHash(id),
     size |-> packageSize(id)]

\* saveRelease writing the new release alone
saveReleaseAlone(rels, release) == <<release>>

\* saveRelease: releases.unshift(release)
saveRelease(rels, release) == <<release>> \o rels

\* skipsRelease without the skip of the client's own version string
skipsReleaseNoEquality(release, currentVersion, appVersion) ==
    \/ /\ semverValid(release.version) /\ semverValid(currentVersion)
       /\ ~semverGt(release.version, currentVersion)
    \/ /\ release.targetBinaryVersion # Wildcard /\ appVersion # Absent
       /\ ~semverSatisfies(appVersion, release.targetBinaryVersion)

\* skipsRelease without the semantic-version ordering filter
skipsReleaseNoOrdering(release, currentVersion, appVersion) ==
    \/ release.version = currentVersion
    \/ /\ release.targetBinaryVersion # Wildcard /\ appVersion # Absent
       /\ ~semverSatisfies(appVersion, release.targetBinaryVersion)

\* skipsRelease with a version that does not parse treated as not newer
skipsReleaseStrictParse(release, currentVersion, appVersion) ==
    \/ release.version = currentVersion
    \/ ~(semverValid(release.version) /\ semverValid(currentVersion))
    \/ ~semverGt(release.version, currentVersion)
    \/ /\ release.targetBinaryVersion # Wildcard /\ appVersion # Absent
       /\ ~semverSatisfies(appVersion, release.targetBinaryVersion)

\* skipsRelease without the binary-range filter
skipsReleaseNoBinaryFilter(release, currentVersion, appVersion) ==
    \/ release.version = currentVersion
    \/ /\ semverValid(release.version) /\ semverValid(currentVersion)
       /\ ~semverGt(release.version, currentVersion)

\* the loop body's filters of findApplicableRelease: TRUE when the release is
\* skipped (continue)
skipsRelease(release, currentVersion, appVersion) ==
    \/ release.version = currentVersion
    \/ /\ semverValid(release.version) /\ semverValid(currentVersion)
       /\ ~semverGt(release.version, currentVersion)
    \/ /\ release.targetBinaryVersion # Wildcard /\ appVersion # Absent
       /\ ~semverSatisfies(appVersion, release.targetBinaryVersion)

\* findApplicableRelease: the index of the first release the loop returns,
\* scanning from index i; 0 stands for null
RECURSIVE findFrom(_, _, _, _)
findFrom(rels, i, currentVersion, appVersion) ==
    IF i > Len(rels) THEN 0
    ELSE IF skipsRelease(rels[i], currentVersion, appVersion)
         THEN findFrom(rels, i + 1, currentVersion, appVersion)
         ELSE i

findApplicableRelease(rels, currentVersion, appVersion) ==
    findFrom(rels, 1, currentVersion, appVersion)

\* findDiffPackage's null
NoDiffPackage == [found |-> FALSE, filename |-> DiffFilename(Null, Null),
                  size |-> <<>>, hash |-> <<>>]

\* findDiffPackage: the delta package file named after the two versions, with
\* its size and the digest of its bytes, when the file exists
findDiffPackage(diffs, fromVersion, toVersion) ==
    LET diffFilename == DiffFilename(fromVersion, toVersion)
        files == {f \in diffs : f.filename = diffFilename}
    IN  IF files # {}
        THEN LET f == CHOOSE g \in files : TRUE IN
             [found |-> TRUE, filename |-> diffFilename,
              size |-> packageSize(f.pkg), hash |-> calculateFileHash(f.pkg)]
        ELSE NoDiffPackage

\* GET /api/download/:filename: the bytes the packages directory holds under
\* the name; 0 stands for the 404 answer
download(diffs, filename) ==
    IF filename.kind = "full" THEN filename.id
    ELSE LET files == {f \in diffs : f.filename = filename} IN
         IF files = {} THEN 0 ELSE (CHOOSE g \in files : TRUE).pkg

\* the answer when no update is offered; id is not a field of the answer: it
\* records which stored release the answer was built from
NoUpdate == [updateAvailable |-> FALSE, version |-> Null, id |-> 0]

\* the answer with the full package's hash sent even for a delta package
UpdateToFullHash(release, diffPackage) ==
    [updateAvailable |-> TRUE, version |-> release.version, id |-> release.id,
     downloadUrl |-> IF diffPackage.found THEN diffPackage.filename
                     ELSE release.filename,
     hash |-> release.hash,
     size |-> IF diffPackage.found THEN diffPackage.size ELSE release.size,
     isDiff |-> diffPackage.found]

\* the answer that offers a release: the delta package's location, hash and
\* size when findDiffPackage found one, the full package's otherwise
UpdateTo(release, diffPackage) ==
    [updateAvailable |-> TRUE, version |-> release.version, id |-> release.id,
     downloadUrl |-> IF diffPackage.found THEN diffPackage.filename
                     ELSE release.filename,
     hash |-> IF diffPackage.found THEN diffPackage.hash ELSE release.hash,
     size |-> IF diffPackage.found THEN diffPackage.size ELSE release.size,
     isDiff |-> diffPackage.found]

\* the rollout gate with the comparison made inclusive
rolloutExcludesInclusive(release, sample) ==
    release.rollout < 100 /\ ~(sample <= release.rollout)

\* the rollout gate closed to every request while the release is not fully
\* rolled out
rolloutExcludesUntilFull(release, sample) == release.rollout < 100

\* the rollout gate: TRUE when the request is not to receive the release
rolloutExcludes(release, sample) ==
    release.rollout < 100 /\ ~(sample < release.rollout)

\* the handler without its check of the disabled flag
checkUpdateNoDisabledCheck(rels, diffs, currentVersion, appVersion, sample) ==
    IF Len(rels) = 0 THEN NoUpdate
    ELSE LET i == findApplicableRelease(rels, currentVersion, appVersion) IN
         IF i = 0 THEN NoUpdate
         ELSE IF rolloutExcludes(rels[i], sample) THEN NoUpdate
         ELSE UpdateTo(rels[i],
                       findDiffPackage(diffs, currentVersion, rels[i].version))

\* POST /api/check-update
checkUpdate(rels, diffs, currentVersion, appVersion, sample) ==
    IF Len(rels) = 0 THEN NoUpdate
    ELSE LET i == findApplicableRelease(rels, currentVersion, appVersion) IN
         IF i = 0 THEN NoUpdate
         ELSE IF rolloutExcludes(rels[i], sample) THEN NoUpdate
         ELSE IF rels[i].disabled THEN NoUpdate
         ELSE UpdateTo(rels[i],
                       findDiffPackage(diffs, currentVersion, rels[i].version))

\* the rollout POST /api/releases stores: parseInt(metadata.rollout) || 100
storedRollout(requested) == IF requested = 0 THEN 100 ELSE requested

\* the edit made on every release of the version instead of the first
patchReleaseEveryMatch(rels, version, body) ==
    [i \in 1..Len(rels) |->
        IF rels[i].version # version THEN rels[i]
        ELSE [rels[i] EXCEPT !.disabled = IF "disabled" \in body.fields
                                          THEN body.disabled ELSE @,
                             !.rollout = IF "rollout" \in body.fields
                                         THEN body.rollout ELSE @]]

\* PATCH /api/releases/:deploymentKey/:platform/:version: the edit of the
\* first release with that version; body.fields names the fields the request
\* carries (the others are undefined and left alone)
patchRelease(rels, version, body) ==
    LET hits == {i \in 1..Len(rels) : rels[i].version = version} IN
    IF hits = {} THEN rels
    ELSE LET k == CHOOSE i \in hits : \A j \in hits : i <= j IN
         [rels EXCEPT ![k] =
            [@ EXCEPT !.disabled = IF "disabled" \in body.fields
                                   THEN body.disabled ELSE @,
                      !.rollout = IF "rollout" \in body.fields
                                  THEN body.rollout ELSE @]]

\* the PATCH answer with the not-found answers left out
patchResponseAlwaysOk(rels, version) == [kind |-> "patch", status |-> 200, error |-> Null]

\* the answer of the PATCH handler: 404 when the scope has no releases file or
\* no release of that version, 200 otherwise (a scope has a releases file
\* exactly when a release was published to it)
patchResponse(rels, version) ==
    IF Len(rels) = 0
    THEN [kind |-> "patch", status |-> 404, error |-> "Release not found"]
    ELSE IF \A i \in 1..Len(rels) : rels[i].version # version
    THEN [kind |-> "patch", status |-> 404, error |-> "Version not found"]
    ELSE [kind |-> "patch", status |-> 200, error |-> Null]

\* the PATCH bodies of the model: fields names the fields the body carries.
\* mandatory is read by the handler as disabled and rollout are, description
\* is left unread as targetBinaryVersion is; neither is a field of the model.
PatchBodies ==
    {[fields |-> {"disabled"}, disabled |-> d, rollout |-> 100,
      targetBinaryVersion |-> Wildcard] : d \in BOOLEAN}
    \cup {[fields |-> {"rollout"}, disabled |-> FALSE, rollout |-> r,
           targetBinaryVersion |-> Wildcard] : r \in Rollouts}
    \cup {[fields |-> {"disabled", "rollout"}, disabled |-> TRUE, rollout |-> 0,
           targetBinaryVersion |-> Wildcard]}
    \cup {[fields |-> {"targetBinaryVersion"}, disabled |-> FALSE, rollout |-> 100,
           targetBinaryVersion |-> t] : t \in TargetRanges}

----------------------------------------------------------------------------
(* Server actions *)

NoExchange == [kind |-> "none"]

\* POST /api/releases
Publish(version, rollout, target) ==
    /\ http = NoExchange
    /\ Len(releases) < MaxReleases
    /\ releases' = saveRelease(releases,
                     Release(Len(releases) + 1, version, storedRollout(rollout), target))
    /\ UNCHANGED <<http, diffPackages, clientVars, statsVars, raceVars, toolVars, cliVars>>

\* PATCH /api/releases/:deploymentKey/:platform/:version
Patch(version, body) ==
    /\ http = NoExchange
    /\ http' = patchResponse(releases, version)
    /\ releases' = patchRelease(releases, version, body)
    /\ UNCHANGED <<diffPackages, clientVars, statsVars, raceVars, toolVars, cliVars>>

\* POST /api/check-update from any client
CheckUpdate(currentVersion, appVersion, sample) ==
    /\ http = NoExchange
    /\ http' = [kind |-> "check", currentVersion |-> currentVersion,
                appVersion |-> appVersion, sample |-> sample,
                resp |-> checkUpdate(releases, diffPackages, currentVersion,
                                     appVersion, sample)]
    /\ UNCHANGED <<releases, diffPackages, clientVars, statsVars, raceVars, toolVars, cliVars>>

\* a delta package file is placed in the packages directory under the name
\* findDiffPackage looks for, replacing the file of that name
StoreDiffPackage(from, to, pkg) ==
    /\ http = NoExchange
    /\ diffPackages' = {f \in diffPackages : f.filename # DiffFilename(from, to)}
                          \cup {[filename |-> DiffFilename(from, to), pkg |-> pkg]}
    /\ UNCHANGED <<releases, http, clientVars, statsVars, raceVars, toolVars, cliVars>>

\* sendJson: the answer leaves the server
Deliver ==
    /\ http # NoExchange
    /\ http' = NoExchange
    /\ UNCHANGED <<releases, diffPackages, clientVars, statsVars, raceVars, toolVars, cliVars>>

----------------------------------------------------------------------------
(* Several scopes on one server: release files per scope, one stats.json *)

\* recorded actions per deployment key the model counts up to
MaxRecorded == 2

\* the deployment keys of two scopes: that of `releases` and that of
\* `otherReleases`
Keys == {"keyA", "keyB"}

\* stats.json as the server creates it: { apps: {} }
NoStats == [k \in Keys |-> 0]

\* no recordStats call in flight
NoCall == [called |-> FALSE, stats |-> NoStats]

\* recordStats between its read and its write: the counter of the scope's
\* action is incremented in the object that was read
recordStats(statsRead, deploymentKey) ==
    [statsRead EXCEPT ![deploymentKey] = @ + 1]

\* recordStats, called by report-install and check-update for a scope: it
\* reads stats.json
RecordStatsRead(deploymentKey) ==
    /\ http = NoExchange
    /\ ~recording[deploymentKey].called
    /\ stats[deploymentKey] < MaxRecorded
    /\ recording' = [recording EXCEPT ![deploymentKey] =
                        [called |-> TRUE, stats |-> stats]]
    /\ UNCHANGED <<serverVars, otherReleases, stats, clientVars, toolVars, cliVars, raceVars>>

\* recordStats: it writes the whole object back to stats.json
RecordStatsWrite(deploymentKey) ==
    /\ http = NoExchange
    /\ recording[deploymentKey].called
    /\ stats' = recordStats(recording[deploymentKey].stats, deploymentKey)
    /\ recording' = [recording EXCEPT ![deploymentKey] = NoCall]
    /\ UNCHANGED <<serverVars, otherReleases, clientVars, toolVars, cliVars, raceVars>>

\* POST /api/releases for the second scope
PublishOther(version) ==
    /\ http = NoExchange
    /\ Len(otherReleases) < MaxReleases
    /\ otherReleases' = saveRelease(otherReleases,
                           Release(Len(otherReleases) + 1, version, 100, Wildcard))
    /\ UNCHANGED <<serverVars, stats, recording, clientVars, toolVars, cliVars, raceVars>>

\* PATCH /api/releases/... for the second scope
PatchOther(version, body) ==
    /\ http = NoExchange
    /\ http' = patchResponse(otherReleases, version)
    /\ otherReleases' = patchRelease(otherReleases, version, body)
    /\ UNCHANGED <<releases, diffPackages, stats, recording, clientVars, toolVars, cliVars, raceVars>>

----------------------------------------------------------------------------
(* A publish and a patch request in flight on one scope *)

\* a handler that was not called
Idle == [at |-> "idle"]
\* neither request was made; order lists the reads and writes of the
\* releases file in the order they happened
NoRace == [publish |-> Idle, patch |-> Idle, order |-> <<>>]

\* POST /api/releases up to saveRelease's read of the releases file: the
\* package is saved and the release record built, then the list is read
SaveReleaseRead(version) ==
    /\ http = NoExchange
    /\ race.publish = Idle
    /\ Len(releases) < MaxReleases
    /\ race' = [race EXCEPT
                   !.publish = [at |-> "read", rels |-> releases,
                                release |-> Release(Len(releases) + 1, version,
                                                    100, Wildcard)],
                   !.order = Append(@, "publish read")]
    /\ UNCHANGED <<serverVars, statsVars, clientVars, toolVars, cliVars, staging>>

\* saveRelease from its unshift on: the list that was read, with the release
\* in front, is written to the releases file
SaveReleaseWrite ==
    /\ http = NoExchange
    /\ race.publish.at = "read"
    /\ releases' = saveRelease(race.publish.rels, race.publish.release)
    /\ race' = [race EXCEPT !.publish.at = "written",
                            !.order = Append(@, "publish write")]
    /\ UNCHANGED <<http, diffPackages, statsVars, clientVars, toolVars, cliVars, staging>>

\* the PATCH handler up to its read of the releases file; it answers 404 and
\* writes nothing when the file or the version is missing
PatchRead(version, body) ==
    /\ http = NoExchange
    /\ race.patch = Idle
    /\ IF patchResponse(releases, version).status = 404
       THEN /\ http' = patchResponse(releases, version)
            /\ race' = [race EXCEPT !.patch = [at |-> "not found"],
                                    !.order = Append(@, "patch read")]
       ELSE /\ race' = [race EXCEPT
                          !.patch = [at |-> "read", rels |-> releases,
                                     version |-> version, body |-> body],
                          !.order = Append(@, "patch read")]
            /\ UNCHANGED http
    /\ UNCHANGED <<releases, diffPackages, statsVars, clientVars, toolVars, cliVars, staging>>

\* the PATCH handler from its assignments on: the list that was read, edited,
\* is written to the releases file and the request is answered
PatchWrite ==
    /\ http = NoExchange
    /\ race.patch.at = "read"
    /\ releases' = patchRelease(race.patch.rels, race.patch.version, race.patch.body)
    /\ http' = patchResponse(race.patch.rels, race.patch.version)
    /\ race' = [race EXCEPT !.patch.at = "written",
                            !.order = Append(@, "patch write")]
    /\ UNCHANGED <<diffPackages, statsVars, clientVars, toolVars, cliVars, staging>>

----------------------------------------------------------------------------
(* Client agent (Android SDK) *)

\* a directory or file that does not exist; pkg names the content: n > 0 is
\* the package of the release with id n, -n is that package altered in transit
NoDir == [exists |-> FALSE, pkg |-> 0, complete |-> FALSE]
Dir(pkg, complete) == [exists |-> TRUE, pkg |-> pkg, complete |-> complete]

\* the SHA-256 digest of a content, taken as collision-free; <<>> is no hash
NoHash == <<>>
calculateHash(pkg) == <<"sha256", pkg>>

\* UpdateResult(updateAvailable = false); id is not a field of UpdateResult: it
\* records which stored release the offer was built from
NoResult == [updateAvailable |-> FALSE, version |-> Null, id |-> 0, hash |-> NoHash,
             downloadUrl |-> FullFilename(0)]
NoHistory == [applied |-> FALSE, pre |-> Null, launches |-> 0, rollbacks |-> 0]
InitPrefs == [current_version |-> Null, pending_version |-> Null,
              previous_version |-> Null, confirmed |-> {}]

\* the persistent state of the installation, as the handlers below take it
Install == [prefs |-> prefs, bundleDir |-> bundleDir, pendingDir |-> pendingDir,
            backupDir |-> backupDir]

\* getCurrentVersion / the currentVersion checkForUpdate sends
getCurrentVersion(p) ==
    IF p.current_version = Null THEN "0.0.0" ELSE p.current_version

\* the writes of applyPendingUpdate, in order: 1 the bundle directory is partly
\* deleted, 2 it is deleted, 3 the pending directory is renamed onto it, 4 the
\* preferences are written
ApplySteps == 4

\* applyPendingUpdate with the pending version record left in place
applyPendingUpdateKeepsPending(c, steps, renameOk) ==
    IF c.prefs.pending_version = Null \/ ~c.pendingDir.exists THEN c
    ELSE [c EXCEPT !.bundleDir = IF renameOk THEN c.pendingDir ELSE NoDir,
                   !.pendingDir = IF renameOk THEN NoDir ELSE @,
                   !.prefs.current_version = c.prefs.pending_version]

\* applyPendingUpdate, stopped after `steps` of its writes (ApplySteps: it
\* runs to its end); renameOk is what File.renameTo returns
applyPendingUpdate(c, steps, renameOk) ==
    IF c.prefs.pending_version = Null THEN c
    ELSE IF ~c.pendingDir.exists THEN c
    ELSE IF steps = 0 THEN c
    ELSE IF steps = 1
         THEN [c EXCEPT !.bundleDir = IF @.exists THEN Dir(@.pkg, FALSE) ELSE @]
    ELSE LET deleted == [c EXCEPT !.bundleDir = NoDir]
             renamed == IF renameOk
                        THEN [deleted EXCEPT !.bundleDir = c.pendingDir,
                                             !.pendingDir = NoDir]
                        ELSE deleted
         IN  IF steps = 2 THEN deleted
             ELSE IF steps = 3 THEN renamed
             ELSE [renamed EXCEPT
                     !.prefs.current_version = c.prefs.pending_version,
                     !.prefs.pending_version = Null]

\* rollbackToPreviousVersion without its check that the backup directory exists
rollbackWithoutBackupCheck(c) ==
    IF c.prefs.previous_version = Null THEN c
    ELSE [c EXCEPT !.bundleDir = c.backupDir,
                   !.backupDir = NoDir,
                   !.prefs.current_version = c.prefs.previous_version,
                   !.prefs.previous_version = Null]

\* rollbackToPreviousVersion
rollbackToPreviousVersion(c) ==
    IF c.prefs.previous_version = Null THEN c
    ELSE IF ~c.backupDir.exists THEN c
    ELSE [c EXCEPT !.bundleDir = c.backupDir,
                   !.backupDir = NoDir,
                   !.prefs.current_version = c.prefs.previous_version,
                   !.prefs.previous_version = Null]

\* notifyUpdateFailed: the failure is reported, then rollbackToPreviousVersion
notifyUpdateFailed(c) ==
    IF c.prefs.current_version = Null THEN c ELSE rollbackToPreviousVersion(c)

\* checkAutoRollback with `launches` launches of the current version counted
\* so far (the function is never called by init)
checkAutoRollback(c, launches) ==
    IF c.prefs.current_version = Null THEN c
    ELSE IF c.prefs.current_version \notin c.prefs.confirmed
            /\ c.prefs.previous_version # Null
            /\ launches + 1 >= LaunchThreshold
         THEN rollbackToPreviousVersion(c)
         ELSE c

\* notifyUpdateSuccess with the confirmation left unrecorded
notifyUpdateSuccessUnrecorded(c) == c

\* notifyUpdateSuccess: the current version's confirmed record is set
notifyUpdateSuccess(c) ==
    IF c.prefs.current_version = Null THEN c
    ELSE [c EXCEPT !.prefs.confirmed = @ \cup {c.prefs.current_version}]

\* clearUpdates with the preferences left in place
clearUpdatesKeepsPrefs(c) ==
    [c EXCEPT !.bundleDir = NoDir, !.pendingDir = NoDir]

\* clearUpdates: the bundle and pending directories are deleted and the
\* preferences cleared
clearUpdates(c) ==
    [c EXCEPT !.bundleDir = NoDir, !.pendingDir = NoDir, !.prefs = InitPrefs]

\* loadBundle: the package whose bundle is loaded; 0 stands for the asset
\* bundled with the application
loadBundle(c) == IF c.bundleDir.exists THEN c.bundleDir.pkg ELSE 0

\* installUpdate extracting into the bundle directory
installUpdateIntoBundle(c, pkg, version, unzipOk) ==
    [c EXCEPT !.bundleDir = Dir(pkg, unzipOk),
              !.prefs.pending_version = IF unzipOk THEN version ELSE @]

\* installUpdate: extract the package into the pending directory and record
\* the pending version; unzipOk is FALSE when the extraction throws part-way
installUpdate(c, pkg, version, unzipOk) ==
    IF unzipOk
    THEN [c EXCEPT !.pendingDir = Dir(pkg, TRUE),
                   !.prefs.pending_version = version]
    ELSE [c EXCEPT !.pendingDir = Dir(pkg, FALSE)]

\* the hash check left out
hashRejectsNever(updateResult, received) == FALSE

\* the hash check of downloadUpdate: TRUE when the download is rejected
hashRejects(updateResult, received) ==
    updateResult.hash # NoHash /\ calculateHash(received) # updateResult.hash

\* the bytes a transfer of package id delivers
Received(id, transfer) == IF transfer = "intact" THEN id ELSE 0 - id

\* the bytes the server holds at the offer's downloadUrl
Served(updateResult) == download(diffPackages, updateResult.downloadUrl)

SetInstall(c) ==
    /\ prefs' = c.prefs
    /\ bundleDir' = c.bundleDir
    /\ pendingDir' = c.pendingDir
    /\ backupDir' = c.backupDir

\* init at process start: the state of the previous process is gone, the
\* pending update is applied
Launch(renameOk) ==
    /\ http = NoExchange
    /\ SetInstall(applyPendingUpdate(Install, ApplySteps, renameOk))
    /\ result' = NoResult
    /\ completion' = Null
    /\ hist' = IF prefs.pending_version # Null /\ pendingDir.exists
               THEN [applied |-> TRUE, pre |-> prefs.current_version,
                     launches |-> 0, rollbacks |-> 0]
               ELSE IF hist.applied /\ hist.launches < LaunchThreshold
                    THEN [hist EXCEPT !.launches = @ + 1]
                    ELSE hist
    /\ UNCHANGED <<serverVars, statsVars, raceVars, toolVars, cliVars, tempFile>>

\* init at process start, the process stopping inside applyPendingUpdate
\* after `steps` of its writes
LaunchCrash(steps, renameOk) ==
    /\ http = NoExchange
    /\ prefs.pending_version # Null /\ pendingDir.exists
    /\ SetInstall(applyPendingUpdate(Install, steps, renameOk))
    /\ result' = NoResult
    /\ completion' = Null
    /\ UNCHANGED <<serverVars, statsVars, raceVars, toolVars, cliVars, tempFile, hist>>

\* checkForUpdate: the request carries the recorded current version and no
\* host binary version; netOk is FALSE when the request fails
CheckForUpdate(sample, netOk) ==
    /\ http = NoExchange
    /\ LET resp == checkUpdate(releases, diffPackages, getCurrentVersion(prefs),
                               Absent, sample) IN
       result' = IF netOk /\ resp.updateAvailable
                 THEN [updateAvailable |-> TRUE, version |-> resp.version,
                       id |-> resp.id, hash |-> resp.hash,
                       downloadUrl |-> resp.downloadUrl]
                 ELSE NoResult
    /\ UNCHANGED <<serverVars, statsVars, raceVars, toolVars, cliVars, prefs, bundleDir, pendingDir, backupDir, tempFile,
                   completion, hist>>

\* downloadUpdate with the result in hand. transfer: "intact", "corrupt"
\* (the bytes arrive altered) or "broken" (the stream fails part-way)
DownloadUpdate(transfer, unzipOk) ==
    /\ http = NoExchange
    /\ IF ~result.updateAvailable
       THEN /\ completion' = "No update available"
            /\ UNCHANGED <<prefs, bundleDir, pendingDir, backupDir, tempFile>>
       ELSE IF transfer = "broken"
       THEN /\ completion' = "Download error"
            /\ tempFile' = Dir(Served(result), FALSE)
            /\ UNCHANGED <<prefs, bundleDir, pendingDir, backupDir>>
       ELSE IF hashRejects(result, Received(Served(result), transfer))
       THEN /\ completion' = "Hash verification failed"
            /\ tempFile' = NoDir
            /\ UNCHANGED <<prefs, bundleDir, pendingDir, backupDir>>
       ELSE /\ SetInstall(installUpdate(Install, Received(Served(result), transfer),
                                        result.version, unzipOk))
            /\ tempFile' = NoDir
            /\ completion' = IF unzipOk THEN "ok" ELSE "Installation failed"
    /\ UNCHANGED <<serverVars, statsVars, raceVars, toolVars, cliVars, result, hist>>

\* notifyUpdateSuccess
NotifyUpdateSuccess ==
    /\ http = NoExchange
    /\ prefs.current_version # Null
    /\ SetInstall(notifyUpdateSuccess(Install))
    /\ hist' = NoHistory
    /\ UNCHANGED <<serverVars, statsVars, raceVars, toolVars, cliVars, tempFile, result, completion>>

\* notifyUpdateFailed: report, then roll back
NotifyUpdateFailed ==
    /\ http = NoExchange
    /\ prefs.current_version # Null
    /\ SetInstall(notifyUpdateFailed(Install))
    /\ hist' = IF notifyUpdateFailed(Install) # Install
               THEN [hist EXCEPT !.rollbacks = IF @ < 2 THEN @ + 1 ELSE @]
               ELSE hist
    /\ UNCHANGED <<serverVars, statsVars, raceVars, toolVars, cliVars, tempFile, result, completion>>

\* clearUpdates
ClearUpdates ==
    /\ http = NoExchange
    /\ SetInstall(clearUpdates(Install))
    /\ hist' = NoHistory
    /\ UNCHANGED <<serverVars, statsVars, raceVars, toolVars, cliVars, tempFile, result, completion>>

----------------------------------------------------------------------------
(* Client agent: the coroutines of downloadUpdate *)

\* downloadUpdate launches a coroutine on Dispatchers.IO at each call; the
\* model follows two of them
JobIds == {1, 2}
\* the entries of a package archive, in the order unzip extracts them
PackageEntries == {1, 2}

NoJob == [at |-> "idle", pkg |-> 0, version |-> Null, next |-> 0]
\* no coroutine running; entries maps each entry name to the package whose
\* copy of it lies in lynx_pending (0: none)
NoEntries == [e \in PackageEntries |-> 0]
NoStaging == [jobs |-> [j \in JobIds |-> NoJob], entries |-> NoEntries]

\* lynx_pending as a whole, after a coroutine staging pkg has written
pendingAfter(entries, pkg) ==
    Dir(pkg, \A e \in PackageEntries : entries[e] = pkg)

\* downloadUpdate with the result in hand: scope.launch starts a coroutine
DownloadUpdateLaunch(j) ==
    /\ http = NoExchange
    /\ result.updateAvailable
    /\ staging.jobs[j] = NoJob
    /\ staging' = [staging EXCEPT !.jobs[j] =
                      [at |-> "launched", pkg |-> Served(result),
                       version |-> result.version, next |-> 0]]
    /\ UNCHANGED <<serverVars, statsVars, toolVars, cliVars, race, clientVars>>

\* the coroutine has downloaded and verified the package; installUpdate
\* deletes lynx_pending and creates it anew
StageDelete(j) ==
    /\ http = NoExchange
    /\ staging.jobs[j].at = "launched"
    /\ staging' = [staging EXCEPT !.jobs[j].at = "unzip", !.jobs[j].next = 1,
                                  !.entries = NoEntries]
    /\ pendingDir' = pendingAfter(NoEntries, staging.jobs[j].pkg)
    /\ UNCHANGED <<serverVars, statsVars, toolVars, cliVars, race, prefs, bundleDir,
                   backupDir, tempFile, result, completion, hist>>

\* unzip extracts the next entry of the coroutine's package
StageWrite(j) ==
    /\ http = NoExchange
    /\ staging.jobs[j].at = "unzip"
    /\ LET job == staging.jobs[j]
           entries == [staging.entries EXCEPT ![job.next] = job.pkg]
       IN  /\ staging' = [staging EXCEPT
                            !.entries = entries,
                            !.jobs[j].next = @ + 1,
                            !.jobs[j].at = IF job.next + 1 \in PackageEntries
                                           THEN "unzip" ELSE "extracted"]
           /\ pendingDir' = pendingAfter(entries, job.pkg)
    /\ UNCHANGED <<serverVars, statsVars, toolVars, cliVars, race, prefs, bundleDir,
                   backupDir, tempFile, result, completion, hist>>

\* installUpdate records the pending version; the coroutine ends with
\* onComplete(true)
StageRecord(j) ==
    /\ http = NoExchange
    /\ staging.jobs[j].at = "extracted"
    /\ prefs' = [prefs EXCEPT !.pending_version = staging.jobs[j].version]
    /\ completion' = "ok"
    /\ staging' = [staging EXCEPT !.jobs[j] = NoJob]
    /\ UNCHANGED <<serverVars, statsVars, toolVars, cliVars, race, bundleDir, pendingDir,
                   backupDir, tempFile, result, hist>>

----------------------------------------------------------------------------
(* Delta packaging tool (file-level diff of two directories) *)

\* the file contents of the model, and fs.stat(file).size of each
Contents == {"c0", "c1", "c7"}
fileSize(content) ==
    CASE content = "c0" -> 0
      [] content = "c1" -> 1
      [] content = "c7" -> 7
      [] OTHER -> 0

\* the relative paths of the model: "a" is a file in some trees and a
\* directory, holding "a/x", in others; "constructor" is a file name that is
\* also a property every JavaScript object inherits from Object.prototype
Paths == {"a", "a/x", "b", "constructor"}
ObjectPrototypeKeys == {"constructor"}
\* the paths inside a directory path
Under(p) == IF p = "a" THEN {"a/x"} ELSE {}

\* what a path is in a tree: nothing, a directory, or a file with a content
NoEntry == "absent"
DirEntry == "dir"
EmptyEntries == [p \in Paths |-> NoEntry]
NoFiles == [p \in {} |-> NoEntry]

\* a directory on disk and a path that does not exist
Directory(entries) == [exists |-> TRUE, entries |-> entries]
NoDirectory == [exists |-> FALSE, entries |-> EmptyEntries]

\* the directories the tool is given: "a" is a directory exactly when it holds
\* the file "a/x" (no empty directories)
InputTrees ==
    {Directory(t) : t \in
        {u \in [Paths -> Contents \cup {NoEntry, DirEntry}] :
            /\ u["a/x"] # DirEntry /\ u["b"] # DirEntry
            /\ u["constructor"] \in {NoEntry, "c1"}
            /\ (u["a"] = DirEntry) <=> (u["a/x"] \in Contents)}}

\* scanDirectory: the object mapping each file's relative path to its hash
scanDirectory(dir) ==
    IF ~dir.exists THEN NoFiles
    ELSE [p \in {q \in Paths : dir.entries[q] \in Contents} |->
            calculateFileHash(dir.entries[p])]

\* files[relativePath] on the object scanDirectory built with {}: an own
\* property gives the hash, a name Object.prototype defines gives the inherited
\* member (truthy, and equal to no hash), any other name gives undefined
Undefined == <<>>
Inherited == <<"inherited">>
propertyOf(files, relativePath) ==
    IF relativePath \in DOMAIN files THEN files[relativePath]
    ELSE IF relativePath \in ObjectPrototypeKeys THEN Inherited
    ELSE Undefined

\* generateDiff; the four arrays hold no path twice and are kept as sets
generateDiff(oldDir, newDir) ==
    LET oldFiles == scanDirectory(oldDir)
        newFiles == scanDirectory(newDir)
    IN  [added |-> {p \in DOMAIN newFiles : propertyOf(oldFiles, p) = Undefined},
         modified |-> {p \in DOMAIN newFiles :
                         /\ propertyOf(oldFiles, p) # Undefined
                         /\ propertyOf(oldFiles, p) # newFiles[p]},
         deleted |-> {p \in DOMAIN oldFiles : propertyOf(newFiles, p) = Undefined},
         unchanged |-> {p \in DOMAIN newFiles :
                         /\ propertyOf(oldFiles, p) # Undefined
                         /\ propertyOf(oldFiles, p) = newFiles[p]}]

\* the sum of the sizes of the files of a directory at the given paths
RECURSIVE sizeOfFiles(_, _)
sizeOfFiles(dir, paths) ==
    IF paths = {} THEN 0
    ELSE LET p == CHOOSE q \in paths : TRUE IN
         fileSize(dir.entries[p]) + sizeOfFiles(dir, paths \ {p})

\* Math.round of the non-negative quotient num / den: the nearest integer,
\* a half rounded up
mathRound(num, den) == (2 * num + den) \div (2 * den)

\* the saved percentage cut off instead of rounded
savedPercentTruncated(fullSize, diffSize) ==
    IF fullSize > 0 THEN (100 * (fullSize - diffSize)) \div fullSize ELSE 0

\* fullSize > 0 ? Math.round((1 - diffSize / fullSize) * 100) : 0
savedPercent(fullSize, diffSize) ==
    IF fullSize > 0 THEN mathRound(100 * (fullSize - diffSize), fullSize) ELSE 0

\* the archive createDiffPackage writes: the manifest entry and one entry per
\* included file; manifest.kind tells what the entry diff-manifest.json is:
\* "json" the manifest as written, "missing" no such entry, "unparsable" bytes
\* that are not JSON
Package(manifest, entries) == [exists |-> TRUE, manifest |-> manifest, entries |-> entries]
NoPackage ==
    [exists |-> FALSE,
     manifest |-> [kind |-> "missing", added |-> {}, modified |-> {}, deleted |-> {}],
     entries |-> NoFiles]
NoInfo ==
    [diff |-> [added |-> {}, modified |-> {}, deleted |-> {}, unchanged |-> {}],
     fullSize |-> 0, diffSize |-> 0, savedBytes |-> 0, savedPercent |-> 0]

\* createDiffPackage: what it resolves with (info) and the archive it writes
createDiffPackage(oldDir, newDir) ==
    LET diff == generateDiff(oldDir, newDir)
        newFiles == scanDirectory(newDir)
        fullSize == sizeOfFiles(newDir, DOMAIN newFiles)
        diffSize == sizeOfFiles(newDir, {p \in DOMAIN newFiles :
                                           p \in diff.added \/ p \in diff.modified})
    IN  [info |-> [diff |-> diff, fullSize |-> fullSize, diffSize |-> diffSize,
                   savedBytes |-> fullSize - diffSize,
                   savedPercent |-> savedPercent(fullSize, diffSize)],
         package |-> Package([kind |-> "json", added |-> diff.added,
                              modified |-> diff.modified, deleted |-> diff.deleted],
                             [p \in diff.added \cup diff.modified |-> newDir.entries[p]])]

\* fs.copy(currentDir, outputDir) onto an output path that does not exist
fsCopy(currentDir) == Directory(currentDir.entries)

\* fs.remove of each of the paths: a file is deleted, a directory is deleted
\* with what it holds, a path that does not exist is left alone
fsRemove(entries, paths) ==
    [q \in Paths |-> IF q \in paths \/ (\E p \in paths : q \in Under(p))
                     THEN NoEntry ELSE entries[q]]

\* fs.ensureDir(path.dirname(outputPath)) or fs.writeFile(outputPath) throws:
\* the parent is a file, or the path itself is a directory
writeThrows(entries, p) ==
    \/ \E d \in Paths : p \in Under(d) /\ entries[d] \in Contents
    \/ entries[p] = DirEntry

\* the entries written: each file created or overwritten, its parent
\* directory created
writeEntries(entries, files, paths) ==
    [q \in Paths |-> IF q \in paths THEN files[q]
                     ELSE IF \E p \in paths : p \in Under(q) THEN DirEntry
                     ELSE entries[q]]

\* applyDiffPackage(currentDir, package, outputDir) into an output path that
\* does not exist: the outcome and the output directory it leaves. The entries
\* are written in the order of the archive, which is the order the file system
\* listed the new directory in; `written` are the entries ahead of the first
\* one whose write throws.
applyDiffPackage(currentDir, package, written) ==
    LET copied == fsCopy(currentDir)
        manifest == package.manifest
    IN  IF manifest.kind = "missing"
        THEN [outcome |-> "Invalid diff package: missing manifest", outputDir |-> copied]
        ELSE IF manifest.kind = "unparsable"
        THEN [outcome |-> "SyntaxError", outputDir |-> copied]
        ELSE LET removed == fsRemove(copied.entries, manifest.deleted)
                 failing == {p \in DOMAIN package.entries : writeThrows(removed, p)}
             IN  IF failing = {}
                 THEN [outcome |-> "ok",
                       outputDir |-> Directory(writeEntries(removed, package.entries,
                                                            DOMAIN package.entries))]
                 ELSE [outcome |-> "write error",
                       outputDir |-> Directory(writeEntries(removed, package.entries,
                                        (DOMAIN package.entries \ failing) \cap written))]

\* the tool at rest: no directories given, nothing built, nothing applied
NoDelta ==
    [oldDir |-> NoDirectory, newDir |-> NoDirectory, info |-> NoInfo,
     package |-> NoPackage, applied |-> "none", outcome |-> "none",
     outputDir |-> NoDirectory]

\* createDiffPackage(oldDir, newDir, outputPath)
CreateDiffPackage ==
    /\ delta.oldDir.exists /\ ~delta.package.exists
    /\ LET built == createDiffPackage(delta.oldDir, delta.newDir) IN
       delta' = [delta EXCEPT !.info = built.info, !.package = built.package]
    /\ UNCHANGED <<serverVars, clientVars, statsVars, raceVars, cliVars>>

\* applyDiffPackage(oldDir, package, outputDir) with the package as built
\* (kind "json"), with its manifest entry taken out ("missing") or with a
\* manifest entry that is not JSON ("unparsable")
ApplyDiffPackage(kind, written) ==
    /\ delta.package.exists /\ ~delta.outputDir.exists
    /\ LET package == [delta.package EXCEPT !.manifest.kind = kind]
           applied == applyDiffPackage(delta.oldDir, package, written)
       IN  delta' = [delta EXCEPT !.applied = kind, !.outcome = applied.outcome,
                                  !.outputDir = applied.outputDir]
    /\ UNCHANGED <<serverVars, clientVars, statsVars, raceVars, cliVars>>

----------------------------------------------------------------------------
(* Command line: the local release store under .lynx-releases *)

\* the scopes of the store: the platform's list, which publish, patch and
\* rollback work on, and the two environment lists promote copies between
Scopes == {"android", "staging-android", "production-android"}
EmptyStore == [s \in Scopes |-> <<>>]

\* the serverType values of lynx-update.json
ServerTypes == {"self-hosted", "custom"}

\* the release record the publish command saves; id stands for packageUrl and
\* createdAt. The record has no disabled field until a patch assigns one, which
\* reads as false. The timestamps the commands add are not modelled.
ReleaseInfo(id, version, rollout, target) ==
    [id |-> id, version |-> version, rollout |-> rollout,
     targetBinaryVersion |-> target, disabled |-> FALSE]

\* the id of the next record saved in a list (ids stand for creation times:
\* they grow)
RECURSIVE maxId(_)
maxId(rels) ==
    IF rels = <<>> THEN 0
    ELSE LET m == maxId(Tail(rels)) IN IF Head(rels).id > m THEN Head(rels).id ELSE m
nextId(rels) == maxId(rels) + 1

\* releases.findIndex(r => r.version === version); 0 stands for -1
findIndex(rels, version) ==
    LET hits == {i \in 1..Len(rels) : rels[i].version = version} IN
    IF hits = {} THEN 0 ELSE CHOOSE i \in hits : \A j \in hits : i <= j

\* Object.assign(release, patchData) on the release at releaseIndex
assignPatch(rels, releaseIndex, patchData) ==
    [rels EXCEPT ![releaseIndex] =
        [@ EXCEPT !.disabled = IF "disabled" \in patchData.fields
                               THEN patchData.disabled ELSE @,
                  !.rollout = IF "rollout" \in patchData.fields
                              THEN patchData.rollout ELSE @,
                  !.targetBinaryVersion =
                      IF "targetBinaryVersion" \in patchData.fields
                      THEN patchData.targetBinaryVersion ELSE @]]

\* rollbackCommand's new list: the target first, then the releases of every
\* other version
rollbackList(rels, targetVersion) ==
    <<rels[findIndex(rels, targetVersion)]>>
        \o SelectSeq(rels, LAMBDA r : r.version # targetVersion)

\* promote without --rollout
NoOption == 0 - 1

\* the record promote puts in the target list, the --rollout option left unread
promotedReleaseKeepsRollout(latestRelease, rolloutOption) == latestRelease

\* the record promote puts in the target list
promotedRelease(latestRelease, rolloutOption) ==
    [latestRelease EXCEPT !.rollout = IF rolloutOption # NoOption
                                      THEN rolloutOption ELSE @]

\* publishCommand for the platform: saved in the local list under the
\* self-hosted configuration, uploaded to the server otherwise (the upload
\* form carries no targetBinaryVersion)
PublishCommand(version, rollout, target) ==
    /\ http = NoExchange
    /\ IF config = "self-hosted"
       THEN /\ nextId(store["android"]) <= MaxReleases
            /\ store' = [store EXCEPT !["android"] =
                 <<ReleaseInfo(nextId(@), version, storedRollout(rollout), target)>> \o @]
            /\ UNCHANGED releases
       ELSE /\ Len(releases) < MaxReleases
            /\ releases' = saveRelease(releases,
                 Release(Len(releases) + 1, version,
                         storedRollout(storedRollout(rollout)), Wildcard))
            /\ UNCHANGED store
    /\ outcome' = "Published"
    /\ UNCHANGED <<http, diffPackages, config, clientVars, statsVars, raceVars, toolVars>>

\* patchCommand for the platform: the local list is edited, then the server
\* is asked to do the same unless the configuration is self-hosted
PatchCommand(version, patchData) ==
    /\ http = NoExchange
    /\ LET rels == store["android"]
           releaseIndex == findIndex(rels, version)
       IN  IF rels = <<>>
           THEN /\ outcome' = "No releases found"
                /\ UNCHANGED <<store, releases>>
           ELSE IF releaseIndex = 0
           THEN /\ outcome' = "Version not found"
                /\ UNCHANGED <<store, releases>>
           ELSE /\ store' = [store EXCEPT !["android"] =
                               assignPatch(rels, releaseIndex, patchData)]
                /\ outcome' = "Patched"
                /\ releases' = IF config # "self-hosted"
                               THEN patchRelease(releases, version, patchData)
                               ELSE releases
    /\ UNCHANGED <<http, diffPackages, config, clientVars, statsVars, raceVars, toolVars>>

\* promoteCommand for the platform, from staging to production
PromoteCommand(rolloutOption) ==
    /\ http = NoExchange
    /\ Len(store["production-android"]) < MaxReleases
    /\ LET sourceReleases == store["staging-android"] IN
       IF sourceReleases = <<>>
       THEN /\ outcome' = "No releases in source"
            /\ UNCHANGED store
       ELSE /\ store' = [store EXCEPT !["production-android"] =
                 <<promotedRelease(sourceReleases[1], rolloutOption)>> \o @]
            /\ outcome' = "Promoted"
    /\ UNCHANGED <<serverVars, config, clientVars, statsVars, raceVars, toolVars>>

\* rollbackCommand for the platform with --version targetVersion
RollbackCommand(targetVersion) ==
    /\ http = NoExchange
    /\ LET rels == store["android"] IN
       IF rels = <<>>
       THEN /\ outcome' = "No releases found"
            /\ UNCHANGED store
       ELSE IF Len(rels) < 2
       THEN /\ outcome' = "No previous version"
            /\ UNCHANGED store
       ELSE IF findIndex(rels, targetVersion) = 0
       THEN /\ outcome' = "Version not found"
            /\ UNCHANGED store
       ELSE /\ store' = [store EXCEPT !["android"] = rollbackList(rels, targetVersion)]
            /\ outcome' = "Rolled back"
    /\ UNCHANGED <<serverVars, config, clientVars, statsVars, raceVars, toolVars>>

----------------------------------------------------------------------------
(* Specifications *)

\* an empty server data directory
InitServer ==
    /\ releases = <<>>
    /\ http = NoExchange
    /\ diffPackages = {}

\* a fresh installation
InitClient ==
    /\ prefs = InitPrefs
    /\ bundleDir = NoDir /\ pendingDir = NoDir /\ backupDir = NoDir
    /\ tempFile = NoDir
    /\ result = NoResult
    /\ completion = Null
    /\ hist = NoHistory

\* a project initialised against a custom server, nothing published, no
\* command run
InitCli ==
    /\ config = "custom"
    /\ store = EmptyStore
    /\ outcome = Null

\* no release in the second scope, nothing recorded, no request in flight
InitStats ==
    /\ otherReleases = <<>>
    /\ stats = NoStats
    /\ recording = [k \in Keys |-> NoCall]
    /\ race = NoRace
    /\ staging = NoStaging

Init ==
    /\ InitServer
    /\ InitClient
    /\ InitCli
    /\ InitStats
    /\ delta = NoDelta

\* the client against a scope that changes by publishes alone: every release
\* is published for all clients, so the two extreme samples stand for all
Next ==
    \/ \E v \in ReleaseVersions : Publish(v, 100, Wildcard)
    \/ \E s \in {0, 99}, n \in BOOLEAN : CheckForUpdate(s, n)
    \/ \E t \in {"intact", "corrupt", "broken"}, u \in BOOLEAN : DownloadUpdate(t, u)
    \/ \E ok \in BOOLEAN : Launch(ok)
    \/ \E k \in 1..(ApplySteps - 1), ok \in BOOLEAN : LaunchCrash(k, ok)
    \/ NotifyUpdateSuccess
    \/ NotifyUpdateFailed
    \/ ClearUpdates

Spec == Init /\ [][Next]_vars

NextResolver ==
    \/ \E v \in ReleaseVersions, r \in Rollouts, t \in TargetRanges : Publish(v, r, t)
    \/ \E v \in ReleaseVersions, b \in PatchBodies : Patch(v, b)
    \/ \E c \in ClientVersions, a \in AppVersions, s \in Samples : CheckUpdate(c, a, s)
    \/ Deliver

SpecResolver == Init /\ [][NextResolver]_vars

\* the contents of delta package files, as distinct from every full package
DiffContents == {11, 12}
\* the version pairs delta packages are stored for
DiffPairs == {<<"1.5.0", "2.0.0">>, <<"0.0.0", "2.0.0">>, <<"beta", "1.5.0">>}

\* the server answering checks while releases are published for all clients
\* and delta package files are placed in its packages directory
NextDelivery ==
    \/ \E v \in ReleaseVersions : Publish(v, 100, Wildcard)
    \/ \E d \in DiffPairs, c \in DiffContents : StoreDiffPackage(d[1], d[2], c)
    \/ \E c \in ClientVersions : CheckUpdate(c, Absent, 0)
    \/ Deliver

SpecDelivery == Init /\ [][NextDelivery]_vars

\* the delta tool given any two directories
InitDiff ==
    /\ InitServer
    /\ InitClient
    /\ InitCli
    /\ InitStats
    /\ \E o \in InputTrees, n \in InputTrees :
          delta = [NoDelta EXCEPT !.oldDir = o, !.newDir = n]

NextDiff ==
    \/ CreateDiffPackage
    \/ \E k \in {"json", "missing", "unparsable"}, w \in SUBSET Paths :
          ApplyDiffPackage(k, w)

SpecDiff == InitDiff /\ [][NextDiff]_vars

\* version strings the command line publishes under
AdminVersions == {"1.5.0", "2.0.0"}
\* the patches the command line and the PATCH route are given
AdminPatchBodies ==
    {[fields |-> {"disabled"}, disabled |-> TRUE, rollout |-> 100,
      targetBinaryVersion |-> Wildcard],
     [fields |-> {"rollout"}, disabled |-> FALSE, rollout |-> 50,
      targetBinaryVersion |-> Wildcard]}
\* the --rollout options promote is given: none, or 100
PromoteOptions == {NoOption, 100}
\* what the staging scope holds when the commands start: nothing, or one
\* release
StagingLists == {<<>>, <<ReleaseInfo(1, "2.0.0", 50, Wildcard)>>}

\* a project under either configuration
InitAdmin ==
    /\ InitServer
    /\ InitClient
    /\ InitStats
    /\ delta = NoDelta
    /\ config \in ServerTypes
    /\ \E l \in StagingLists : store = [EmptyStore EXCEPT !["staging-android"] = l]
    /\ outcome = Null

\* the commands of the command line and the server's PATCH route
NextAdmin ==
    \/ \E v \in AdminVersions : PublishCommand(v, 100, Wildcard)
    \/ \E v \in AdminVersions, b \in AdminPatchBodies : PatchCommand(v, b)
    \/ \E r \in PromoteOptions : PromoteCommand(r)
    \/ \E v \in AdminVersions : RollbackCommand(v)
    \/ \E v \in AdminVersions, b \in AdminPatchBodies : Patch(v, b)
    \/ Deliver

SpecAdmin == InitAdmin /\ [][NextAdmin]_vars

\* requests for two scopes on one server: publishes and patches of either
\* scope, and the recordStats calls of check-update and report-install
\* requests, which interleave at their reads and writes of stats.json
NextScopes ==
    \/ \E v \in AdminVersions : Publish(v, 100, Wildcard)
    \/ \E v \in AdminVersions : PublishOther(v)
    \/ \E b \in AdminPatchBodies : Patch("1.5.0", b)
    \/ \E b \in AdminPatchBodies : PatchOther("1.5.0", b)
    \/ \E k \in Keys : RecordStatsRead(k)
    \/ \E k \in Keys : RecordStatsWrite(k)
    \/ Deliver

SpecScopes == Init /\ [][NextScopes]_vars

----------------------------------------------------------------------------
(* Update resolver: properties of the check-update exchange *)

\* the stored release a response offers
Offered == releases[CHOOSE i \in 1..Len(releases) : releases[i].id = http.resp.id]
Answered == http.kind = "check"
Offers == Answered /\ http.resp.updateAvailable
\* the index findApplicableRelease picked for the request in flight
Picked == findApplicableRelease(releases, http.currentVersion, http.appVersion)
\* the answer that offers the release to the request in flight
Answer(release) ==
    UpdateTo(release, findDiffPackage(diffPackages, http.currentVersion, release.version))

\* C5: the check-update handler never answers with a release whose disabled
\* flag is true, whatever the scope content, current version and sample.
C5_NeverOffersDisabled == Offers => ~Offered.disabled

\* C5 witness: the release the scan picked is disabled, the rollout gate
\* admitted the request, and the answer is no update.
C5_Witness ==
    /\ Answered /\ Picked # 0
    /\ releases[Picked].disabled
    /\ ~rolloutExcludes(releases[Picked], http.sample)
    /\ ~http.resp.updateAvailable

\* the filters of the resolver as the specification lists them (steps 1-4):
\* TRUE when the release survives all of them
SurvivesAllFilters(release, currentVersion, appVersion) ==
    /\ ~skipsRelease(release, currentVersion, appVersion)
    /\ ~release.disabled

\* C6: when the newest release that passes the version and binary-range
\* filters is disabled, the resolver skips it and answers with the next older
\* release that passes all filters (rollout 100), not with no update.
C6_SkipsDisabledToOlder ==
    \A j \in 1..Len(releases) :
        ( /\ Answered /\ Picked # 0 /\ Picked < j
          /\ releases[Picked].disabled
          /\ SurvivesAllFilters(releases[j], http.currentVersion, http.appVersion)
          /\ \A k \in 1..(j - 1) :
                ~SurvivesAllFilters(releases[k], http.currentVersion, http.appVersion)
          /\ releases[j].rollout = 100 )
        => http.resp = Answer(releases[j])

\* C7: the resolver never answers with a release whose version string equals
\* the currentVersion of the request.
C7_NeverOffersCurrentVersion == Offers => http.resp.version # http.currentVersion

\* C7 witness: the scope holds a release under the client's own version
\* string, which does not parse, and the client is offered another release.
C7_Witness ==
    /\ Offers
    /\ ~semverValid(http.currentVersion)
    /\ \E i \in 1..Len(releases) : releases[i].version = http.currentVersion

\* the binary-range filter admits the release under the code's reading and
\* under the specification's
BinaryAdmits(release, appVersion) ==
    \/ release.targetBinaryVersion = Wildcard
    \/ appVersion # Absent /\ semverSatisfies(appVersion, release.targetBinaryVersion)

\* C8: when the release version and currentVersion both parse, a release is
\* offered only if it is strictly greater; when either does not parse, the
\* ordering criterion does not exclude the release: the first such release the
\* other filters and gates admit is the one offered.
C8_SemverOrderingFilter ==
    /\ (Offers /\ semverValid(http.resp.version) /\ semverValid(http.currentVersion))
         => semverGt(http.resp.version, http.currentVersion)
    /\ \A i \in 1..Len(releases) :
         ( /\ Answered
           /\ ~(semverValid(releases[i].version) /\ semverValid(http.currentVersion))
           /\ releases[i].version # http.currentVersion
           /\ BinaryAdmits(releases[i], http.appVersion)
           /\ ~releases[i].disabled
           /\ releases[i].rollout = 100 \/ http.sample < releases[i].rollout
           /\ \A j \in 1..(i - 1) :
                 \/ releases[j].version = http.currentVersion
                 \/ /\ semverValid(releases[j].version)
                    /\ semverValid(http.currentVersion)
                    /\ ~semverGt(releases[j].version, http.currentVersion) )
         => http.resp = Answer(releases[i])

\* C8 witness: an offer in which one of the two versions does not parse.
C8_Witness ==
    /\ Offers
    /\ ~(semverValid(http.resp.version) /\ semverValid(http.currentVersion))

\* C10: a release with rollout 0 is never offered, for any sample, and an
\* otherwise admissible release with rollout 100 is offered for every sample.
C10_RolloutExtremes ==
    /\ Offers => Offered.rollout # 0
    /\ ( /\ Answered /\ Picked # 0
         /\ releases[Picked].rollout = 100
         /\ ~releases[Picked].disabled )
       => http.resp = Answer(releases[Picked])

\* C10 witness: the picked release is enabled with rollout 0 and the request,
\* with the smallest sample, is answered with no update.
C10_Witness ==
    /\ Answered /\ Picked # 0
    /\ releases[Picked].rollout = 0
    /\ ~releases[Picked].disabled
    /\ http.sample = 0
    /\ ~http.resp.updateAvailable

\* C11: a request that carries no host binary version (appVersion absent) is
\* never answered with a release whose targetBinaryVersion is a non-wildcard
\* range.
C11_AbsentHostSkipsRanged ==
    (Offers /\ http.appVersion = Absent) => Offered.targetBinaryVersion = Wildcard

\* the version filters alone (own version string, semantic-version ordering)
\* skip the release
VersionSkips(release, currentVersion) ==
    \/ release.version = currentVersion
    \/ /\ semverValid(release.version) /\ semverValid(currentVersion)
       /\ ~semverGt(release.version, currentVersion)

\* C12: a request that carries a host binary version is never answered with a
\* release whose non-wildcard targetBinaryVersion does not admit that version;
\* a wildcard range admits every host version: the first release the version
\* filters let through, when its range is the wildcard, is the one picked,
\* whatever host version the request carries.
C12_BinaryRangeFilter ==
    /\ (Offers /\ http.appVersion # Absent /\ Offered.targetBinaryVersion # Wildcard)
         => semverSatisfies(http.appVersion, Offered.targetBinaryVersion)
    /\ \A i \in 1..Len(releases) :
         ( /\ Answered
           /\ releases[i].targetBinaryVersion = Wildcard
           /\ ~VersionSkips(releases[i], http.currentVersion)
           /\ \A j \in 1..(i - 1) : VersionSkips(releases[j], http.currentVersion) )
         => Picked = i

\* C12 witness: a request with a host version outside the range of the newest
\* release is offered the older wildcard release behind it, and that host
\* version is no semantic version.
C12_Witness ==
    /\ Offers /\ http.appVersion = "dev"
    /\ Len(releases) = 2
    /\ releases[1].targetBinaryVersion # Wildcard
    /\ ~VersionSkips(releases[1], http.currentVersion)
    /\ http.resp.id = releases[2].id

\* the delta package files stored from the request's currentVersion to the
\* offered version
DeltaFiles ==
    {f \in diffPackages :
        f.filename = DiffFilename(http.currentVersion, http.resp.version)}

----------------------------------------------------------------------------
(* Client agent: properties *)

\* C1: after an update was applied over an earlier version and with no
\* notifyUpdateSuccess since, three further launches have caused exactly one
\* rollback and the current version is the version from before the update.
C1_ThreeLaunchesRollBack ==
    (hist.applied /\ hist.pre # Null /\ hist.launches = LaunchThreshold)
        => (hist.rollbacks = 1 /\ prefs.current_version = hist.pre)

\* C2: init with a pending generation present (whole, staged over a recorded
\* current version, the rename succeeding) leaves in backup the generation and
\* version that were current before, in current the generation that was
\* pending, and no pending.
C2_ApplyKeepsBackup ==
    [][ ( /\ Launch(TRUE)
          /\ prefs.pending_version # Null /\ pendingDir.exists /\ pendingDir.complete
          /\ prefs.current_version # Null /\ bundleDir.exists /\ bundleDir.complete )
        => /\ backupDir' = bundleDir
           /\ prefs'.previous_version = prefs.current_version
           /\ bundleDir' = pendingDir
           /\ ~pendingDir'.exists
           /\ prefs'.pending_version = Null ]_vars

\* C3: wherever the process stops inside the apply of a complete pending
\* generation over a complete current one (with its recorded version), the
\* current slot holds the whole previous generation or the whole new one.
C3_CrashLeavesUsableCurrent ==
    [][ ( /\ \E k \in 1..(ApplySteps - 1), ok \in BOOLEAN : LaunchCrash(k, ok)
          /\ prefs.current_version # Null
          /\ bundleDir.exists /\ bundleDir.complete /\ pendingDir.complete )
        => (bundleDir' = bundleDir \/ bundleDir' = pendingDir) ]_vars

\* C4: a download whose digest differs from the advertised hash reports the
\* failure, deletes the downloaded file and leaves the pending generation and
\* the version records as they were; no altered package is ever the pending
\* or the current generation.
C4_MismatchRejected ==
    /\ [](pendingDir.pkg >= 0 /\ bundleDir.pkg >= 0)
    /\ [][ ( /\ \E u \in BOOLEAN : DownloadUpdate("corrupt", u)
             /\ result.updateAvailable )
           => /\ completion' = "Hash verification failed"
              /\ ~tempFile'.exists
              /\ pendingDir' = pendingDir
              /\ prefs' = prefs
              /\ bundleDir' = bundleDir ]_vars

\* C4 witness: a download was rejected for its hash while an earlier package
\* is staged, and no downloaded file remains.
C4_Witness ==
    /\ completion = "Hash verification failed"
    /\ pendingDir.exists /\ pendingDir.complete
    /\ pendingDir.pkg # result.id
    /\ ~tempFile.exists

\* C9: the client's running release never moves to an entry further back in
\* the scope's newest-first list (an entry published earlier) than the one it
\* runs.
C9_NeverMovesToOlderEntry ==
    [][ (bundleDir.exists /\ bundleDir'.exists) => bundleDir'.pkg >= bundleDir.pkg ]_vars

\* C9 amended: an apply changes the recorded current version to a strictly
\* greater one whenever the old and the new version both parse as semantic
\* versions (no hot update installed counting as 0.0.0).
C9_VersionNeverDecreases ==
    [][ ( /\ prefs'.current_version # prefs.current_version
          /\ prefs'.current_version # Null
          /\ semverValid(prefs'.current_version)
          /\ semverValid(getCurrentVersion(prefs)) )
        => semverGt(prefs'.current_version, getCurrentVersion(prefs)) ]_vars

\* C9 witness: the client runs a release it applied over an earlier hot
\* update, and that release lies further back in the list than the newest.
C9_Witness ==
    /\ hist.applied /\ hist.pre # Null
    /\ bundleDir.exists /\ bundleDir.complete
    /\ prefs.current_version = "2.0.0" /\ hist.pre = "1.5.0"
    /\ Len(releases) > 0 /\ bundleDir.pkg < releases[1].id

\* C24: after a stage and an init that ran applyPendingUpdate to its end, a
\* second init with no stage in between is a no-op: the current, backup and
\* pending generations and all version records are the same before and after
\* it, whatever the renames return.
C24_SecondApplyIsNoOp ==
    \A ok \in BOOLEAN, again \in BOOLEAN :
        LET first == applyPendingUpdate(Install, ApplySteps, ok)
        IN  applyPendingUpdate(first, ApplySteps, again) = first

\* C24 witness: a staged update was applied at one launch and a further
\* launch followed; the applied generation is still the current one.
C24_Witness ==
    /\ hist.applied /\ hist.launches >= 1
    /\ bundleDir.exists /\ bundleDir.complete
    /\ prefs.current_version # Null /\ prefs.pending_version = Null
    /\ ~pendingDir.exists

\* C25: notifyUpdateSuccess records the current version as confirmed and
\* does not remove the backup generation; an init never rolls a confirmed
\* current version back (it leaves it current or applies the staged update),
\* and checkAutoRollback changes nothing for a confirmed version whatever the
\* number of launches counted.
C25_ConfirmedNeverRolledBack ==
    /\ (prefs.current_version # Null) =>
          LET c == notifyUpdateSuccess(Install)
          IN  /\ prefs.current_version \in c.prefs.confirmed
              /\ c.backupDir = backupDir
              /\ c.bundleDir = bundleDir
    /\ (prefs.current_version # Null /\ prefs.current_version \in prefs.confirmed) =>
          /\ \A ok \in BOOLEAN :
               LET c == applyPendingUpdate(Install, ApplySteps, ok)
               IN  /\ c.prefs.current_version
                        \in {prefs.current_version, prefs.pending_version}
                   /\ c.backupDir = backupDir
                   /\ prefs.current_version \in c.prefs.confirmed
          /\ \A n \in 0..LaunchThreshold : checkAutoRollback(Install, n) = Install

\* C25 witness: the running hot update is confirmed, and an update published
\* later is staged behind it.
C25_Witness ==
    /\ prefs.current_version # Null
    /\ prefs.current_version \in prefs.confirmed
    /\ bundleDir.exists /\ bundleDir.complete
    /\ pendingDir.exists /\ prefs.pending_version # Null

\* C26: notifyUpdateFailed on an applied update rolls back at once: when it
\* returns, the backup generation is in current and the current version is
\* the one that was current before the update was applied.
C26_FailedRollsBack ==
    (hist.applied /\ hist.pre # Null /\ hist.rollbacks = 0
     /\ prefs.current_version # Null)
        => LET c == notifyUpdateFailed(Install)
           IN  /\ c.prefs.current_version = hist.pre
               /\ c.bundleDir = backupDir
               /\ ~c.backupDir.exists

\* C27: rollback without a backup generation is a no-op: the current and the
\* pending generation, the current version record and the confirmation
\* records are unchanged, whether or not a previous version is recorded.
C27_RollbackWithoutBackupNoOp ==
    /\ (~backupDir.exists) => notifyUpdateFailed(Install) = Install
    /\ \A v \in ClientVersions \cup {Null} :
          LET c == [Install EXCEPT !.prefs.previous_version = v,
                                   !.backupDir = NoDir]
          IN  rollbackToPreviousVersion(c) = c

\* C27 witness: an applied, unconfirmed update is current, no backup exists
\* and no rollback has taken place: notifyUpdateFailed leaves this state as it
\* is.
C27_Witness ==
    /\ hist.applied /\ hist.pre # Null /\ hist.rollbacks = 0
    /\ prefs.current_version # Null
    /\ prefs.current_version \notin prefs.confirmed
    /\ bundleDir.exists /\ ~backupDir.exists
    /\ notifyUpdateFailed(Install) = Install

\* C28: after clearUpdates, from any state, no current, pending or backup
\* generation exists and the preferences hold no record; getCurrentVersion is
\* 0.0.0, the bundled asset is what loads, and a following init applies
\* nothing.
C28_ClearUpdatesRevertsAll ==
    LET c == clearUpdates(Install)
    IN  /\ ~c.bundleDir.exists /\ ~c.pendingDir.exists /\ ~c.backupDir.exists
        /\ c.prefs = InitPrefs
        /\ getCurrentVersion(c.prefs) = "0.0.0"
        /\ loadBundle(c) = 0
        /\ \A ok \in BOOLEAN : applyPendingUpdate(c, ApplySteps, ok) = c

\* C28 witness: the running process staged an update (its download completed)
\* and nothing is installed, staged or recorded any more.
C28_Witness ==
    /\ completion = "ok" /\ result.updateAvailable
    /\ prefs = InitPrefs
    /\ ~bundleDir.exists /\ ~pendingDir.exists /\ ~backupDir.exists

\* a step that is a downloadUpdate or a checkForUpdate, with any outcome
DownloadOrCheck ==
    \/ \E t \in {"intact", "corrupt", "broken"}, u \in BOOLEAN : DownloadUpdate(t, u)
    \/ \E sample \in {0, 99}, n \in BOOLEAN : CheckForUpdate(sample, n)

\* C29: a download that stages puts the package in the pending generation,
\* whatever was staged before, and records its version as pending; no
\* download and no check, failed or not, changes the current generation, the
\* current version record or the backup. (Stated from the effect: a step that
\* changes one of these is no download and no check, and a step that leaves
\* the pending generation other than the offered package, whole and under its
\* version, is no successful download.)
C29_StageLeavesCurrent ==
    [][ /\ ( \/ bundleDir' # bundleDir
             \/ backupDir' # backupDir
             \/ prefs'.current_version # prefs.current_version
             \/ prefs'.previous_version # prefs.previous_version
             \/ prefs'.confirmed # prefs.confirmed )
           => ~DownloadOrCheck
        /\ ( /\ result.updateAvailable
             /\ \/ pendingDir' # Dir(result.id, TRUE)
                \/ prefs'.pending_version # result.version )
           => ~DownloadUpdate("intact", TRUE) ]_vars

\* C29 witness: an update is staged, whole and under its version, behind a
\* different current generation.
C29_Witness ==
    /\ completion = "ok"
    /\ pendingDir = Dir(result.id, TRUE)
    /\ prefs.pending_version = result.version
    /\ bundleDir.exists /\ bundleDir.pkg # pendingDir.pkg
    /\ prefs.current_version # Null

\* C30: a download that fails mid-stream leaves no partly written package
\* file and stages nothing: the pending generation and the pending version
\* record are unchanged.
C30_BrokenDownloadDiscarded ==
    [][ ((\E u \in BOOLEAN : DownloadUpdate("broken", u)) /\ result.updateAvailable)
        => /\ ~tempFile'.exists
           /\ pendingDir' = pendingDir
           /\ prefs'.pending_version = prefs.pending_version ]_vars

----------------------------------------------------------------------------
(* Delta packaging tool: properties *)

\* the paths of the files of a directory
FilesOf(dir) == {p \in Paths : dir.entries[p] \in Contents}

\* C14: for all directories oldDir and newDir (a path may be a directory in one
\* and a file in the other), applying the package built from them to a copy of
\* oldDir succeeds and leaves exactly newDir's files, each with newDir's hash.
C14_ApplyReconstructsNewTree ==
    delta.applied = "json" =>
        /\ delta.outcome = "ok"
        /\ scanDirectory(delta.outputDir) = scanDirectory(delta.newDir)

\* C15: the diff has added = the paths of newDir absent from oldDir, modified =
\* the common paths whose hashes differ, deleted = the paths of oldDir absent
\* from newDir; the three are pairwise disjoint, an unchanged path is in none
\* of them, and the diff of a directory with itself is empty in all three.
C15_DiffClassification ==
    delta.package.exists =>
        LET old == FilesOf(delta.oldDir)
            new == FilesOf(delta.newDir)
            differ == {p \in old \cap new :
                         delta.oldDir.entries[p] # delta.newDir.entries[p]}
            d == delta.info.diff
        IN  /\ d.added = new \ old
            /\ d.modified = differ
            /\ d.deleted = old \ new
            /\ d.added \cap d.modified = {}
            /\ d.added \cap d.deleted = {}
            /\ d.modified \cap d.deleted = {}
            /\ \A p \in (old \cap new) \ differ :
                 p \notin d.added \cup d.modified \cup d.deleted
            /\ (delta.oldDir = delta.newDir) =>
                 (d.added = {} /\ d.modified = {} /\ d.deleted = {})

\* the files of newDir that are new or changed against oldDir
Included ==
    {p \in FilesOf(delta.newDir) :
        \/ p \notin FilesOf(delta.oldDir)
        \/ delta.oldDir.entries[p] # delta.newDir.entries[p]}

\* percent is 100 * (1 - diffSize / fullSize) rounded to the nearest integer,
\* a half rounded up
RoundsTo(percent, fullSize, diffSize) ==
    /\ (2 * percent - 1) * fullSize <= 200 * (fullSize - diffSize)
    /\ 200 * (fullSize - diffSize) < (2 * percent + 1) * fullSize

\* what C16 and its amendment share: the two sizes, the rounding, the range
\* and the value at fullSize 0
SavedPercentFormula ==
    /\ delta.info.fullSize = sizeOfFiles(delta.newDir, FilesOf(delta.newDir))
    /\ delta.info.diffSize = sizeOfFiles(delta.newDir, Included)
    /\ (delta.info.fullSize > 0) =>
         RoundsTo(delta.info.savedPercent, delta.info.fullSize, delta.info.diffSize)
    /\ delta.info.savedPercent \in 0..100
    /\ (delta.info.fullSize = 0) => delta.info.savedPercent = 0

\* C16: createDiffPackage reports savedPercent = round(100 * (1 - diffSize /
\* fullSize)), diffSize being the sizes of the added and modified files only;
\* the value is within 0..100, is 0 when fullSize is 0, and is 0 when oldDir
\* and newDir are identical.
C16_SavedPercent ==
    delta.package.exists =>
        /\ SavedPercentFormula
        /\ (delta.oldDir = delta.newDir) => delta.info.savedPercent = 0

\* C16 amended: as C16, but for identical directories the value is 100 when
\* fullSize is positive (and 0 only when fullSize is 0).
C16_SavedPercentAmended ==
    delta.package.exists =>
        /\ SavedPercentFormula
        /\ (delta.oldDir = delta.newDir /\ delta.info.fullSize > 0)
             => delta.info.savedPercent = 100

\* C16 witness: a package built from two identical directories that hold
\* files of positive size reports 100.
C16_Witness ==
    /\ delta.package.exists
    /\ delta.oldDir = delta.newDir
    /\ delta.info.fullSize > 0
    /\ delta.info.savedPercent = 100

\* C17: applying a package whose manifest is absent or malformed fails and
\* changes nothing: the output location and the current directory are as they
\* were before the call.
C17_InvalidPackageNoMutation ==
    [][ (\E w \in SUBSET Paths :
            ApplyDiffPackage("missing", w) \/ ApplyDiffPackage("unparsable", w))
        => /\ delta'.outcome \notin {"none", "ok"}
           /\ delta'.outputDir = delta.outputDir
           /\ delta'.oldDir = delta.oldDir ]_vars

----------------------------------------------------------------------------
(* Release stores: properties of the administrative operations *)

Ids(rels) == {rels[i].id : i \in 1..Len(rels)}

\* the list has not become shorter and holds every record it held
KeepsRecords(old, new) == Len(new) >= Len(old) /\ Ids(old) \subseteq Ids(new)

\* C18: no publish, patch, promote or rollback removes a release record from
\* a scope: the number of records of a scope never decreases and every record
\* once stored stays in it.
C18_NoRecordRemoved ==
    [][ /\ \A s \in Scopes : KeepsRecords(store[s], store'[s])
        /\ KeepsRecords(releases, releases') ]_vars

\* the records of old that are still in new are in the same relative order
KeepsOrder(old, new) ==
    \A i, j \in 1..Len(old) :
        (i < j /\ old[i].id # old[j].id) =>
            \A k, l \in 1..Len(new) :
                (new[k].id = old[i].id /\ new[l].id = old[j].id) => k < l

\* the edit of a patch: the list keeps its length, only the first release of
\* the version differs, and on it only the fields the request names
PatchFrame(old, new, version, body) ==
    /\ Len(new) = Len(old)
    /\ \A i \in 1..Len(old) :
         /\ new[i].id = old[i].id
         /\ new[i].version = old[i].version
         /\ new[i].targetBinaryVersion = old[i].targetBinaryVersion
         /\ (new[i].disabled # old[i].disabled) => "disabled" \in body.fields
         /\ (new[i].rollout # old[i].rollout) => "rollout" \in body.fields
         /\ (new[i] # old[i]) =>
              /\ old[i].version = version
              /\ \A j \in 1..(i - 1) : old[j].version # version

\* a patch, by the command or by the server's route, is a field-level edit in
\* place of the one targeted release
PatchIsFieldEdit ==
    \A v \in AdminVersions, b \in AdminPatchBodies :
        /\ PatchCommand(v, b) =>
             /\ PatchFrame(store["android"], store'["android"], v, b)
             /\ \A s \in Scopes \ {"android"} : store'[s] = store[s]
             /\ PatchFrame(releases, releases', v, b)
        /\ Patch(v, b) => PatchFrame(releases, releases', v, b)

\* C19: patch is a field-level edit in place (only the fields named in the
\* request change, on the one targeted release; every other release, the
\* order and the length of the list are unchanged), and apart from an insert
\* at the front no administrative operation changes the order of a scope.
C19_PatchFrameNoReorder ==
    [][ /\ PatchIsFieldEdit
        /\ \A s \in Scopes : KeepsOrder(store[s], store'[s])
        /\ KeepsOrder(releases, releases') ]_vars

\* the step is a rollback command that moved the first release of its target
\* version to the front and left the others in their relative order
RollbackMovedToFront ==
    \E v \in AdminVersions :
        /\ RollbackCommand(v)
        /\ findIndex(store["android"], v) # 0
        /\ store'["android"][1] = store["android"][findIndex(store["android"], v)]
        /\ KeepsOrder(SelectSeq(store["android"],
                                LAMBDA r : r.id # store'["android"][1].id),
                      Tail(store'["android"]))

\* C19 amended: patch is a field-level edit in place; the order of a scope
\* changes only by the rollback command, which moves the first release of its
\* target version to the front and leaves the others in their relative order.
C19_PatchFrameRollbackReorders ==
    [][ /\ PatchIsFieldEdit
        /\ \A s \in Scopes \ {"android"} : KeepsOrder(store[s], store'[s])
        /\ KeepsOrder(store["android"], store'["android"]) \/ RollbackMovedToFront
        /\ KeepsOrder(releases, releases') ]_vars

\* C19 witness: a patch disabled the newest release, and a rollback to the
\* older version then put the older release in front of it.
C19_Witness ==
    /\ outcome = "Rolled back"
    /\ Len(store["android"]) = 2
    /\ store["android"][1].id < store["android"][2].id
    /\ store["android"][2].disabled

\* C20: a patch for a version the scope does not hold, or for a scope without
\* releases, is answered not found and leaves the stored list as it was.
C20_PatchNotFound ==
    [][ \A v \in AdminVersions, b \in AdminPatchBodies :
          /\ ( /\ Patch(v, b)
               /\ \A i \in 1..Len(releases) : releases[i].version # v )
             => (http'.status = 404 /\ releases' = releases)
          /\ ( /\ PatchCommand(v, b)
               /\ \A i \in 1..Len(store["android"]) : store["android"][i].version # v )
             => /\ outcome' \in {"No releases found", "Version not found"}
                /\ store' = store
                /\ releases' = releases ]_vars

\* C20 witness: the server answered a patch for a version its scope does not
\* hold with 404, the scope holding a release, after the command reported that
\* its local scope has no releases.
C20_Witness ==
    /\ http.kind = "patch" /\ http.status = 404
    /\ http.error = "Version not found"
    /\ Len(releases) > 0
    /\ outcome = "No releases found"

\* C21: after a successful patch every field the request supplied (disabled,
\* rollout, targetBinaryVersion) has the supplied value on the stored release
\* the patch targets, which is what a following check-update reads.
C21_PatchStoresSuppliedFields ==
    [][ \A v \in ReleaseVersions, b \in PatchBodies :
          (Patch(v, b) /\ http'.status = 200) =>
              LET stored == releases'[findIndex(releases, v)] IN
              /\ ("disabled" \in b.fields) => stored.disabled = b.disabled
              /\ ("rollout" \in b.fields) => stored.rollout = b.rollout
              /\ ("targetBinaryVersion" \in b.fields)
                   => stored.targetBinaryVersion = b.targetBinaryVersion ]_vars

----------------------------------------------------------------------------
(* Scopes: properties *)

\* the step is a request addressed to the scope of keyA / of keyB
AddressedToA ==
    \/ \E v \in AdminVersions : Publish(v, 100, Wildcard)
    \/ \E b \in AdminPatchBodies : Patch("1.5.0", b)
    \/ RecordStatsRead("keyA") \/ RecordStatsWrite("keyA")
AddressedToB ==
    \/ \E v \in AdminVersions : PublishOther(v)
    \/ \E b \in AdminPatchBodies : PatchOther("1.5.0", b)
    \/ RecordStatsRead("keyB") \/ RecordStatsWrite("keyB")

\* C23: requests against different scopes are independent: under any
\* interleaving of publish, patch and the recording of check-update and
\* report-install requests, a step of a request addressed to one scope leaves
\* the other scope's release list and recorded statistics as they were.
C23_ScopesIndependent ==
    [][ /\ AddressedToA =>
             (otherReleases' = otherReleases /\ stats'["keyB"] = stats["keyB"])
        /\ AddressedToB =>
             (releases' = releases /\ stats'["keyA"] = stats["keyA"]) ]_vars

----------------------------------------------------------------------------
(* Rollback command and the resolver *)

\* C31: after the rollback command targeted version T, T is the first entry
\* of the platform's list, and a client that runs a newer version and checks
\* against that list is offered T: the resolver picks the first entry.
C31_RollbackOffersTarget ==
    outcome = "Rolled back" =>
        LET rels == store["android"]
            T == rels[1].version
        IN  \A c \in ClientVersions :
                semverValid(c) /\ semverValid(T) /\ semverGt(c, T)
                    => findApplicableRelease(rels, c, Absent) = 1

----------------------------------------------------------------------------
(* Update resolver: the rollout gate and the scan order *)

\* the index of the first release that survives every filter of the resolver
\* for the request in flight (own version, ordering, binary range, disabled);
\* 0 when none does
FirstSurvivor ==
    LET S == {i \in 1..Len(releases) :
                SurvivesAllFilters(releases[i], http.currentVersion, http.appVersion)}
    IN  IF S = {} THEN 0 ELSE CHOOSE i \in S : \A j \in S : i <= j

\* C32: the rollout gate is applied to the first release that survives the
\* filters and to no other: with sample s and that release's rollout r the
\* release is offered iff s < r, and when it is not offered the answer is no
\* update (no older release is offered in its place).
C32_RolloutGateOnFirstSurvivor ==
    (Answered /\ FirstSurvivor # 0) =>
        LET release == releases[FirstSurvivor] IN
        /\ (http.sample < release.rollout) <=> (http.resp = Answer(release))
        /\ ~(http.sample < release.rollout) => http.resp = NoUpdate

----------------------------------------------------------------------------
(* Update resolver: a client that keeps checking *)

\* the current version of the client that keeps issuing check-update requests
SamplingClient == "0.0.0"

\* the scope changes by publishes and patches while the client keeps checking
NextSampling ==
    \/ \E v \in AdminVersions, r \in Rollouts : Publish(v, r, Wildcard)
    \/ \E v \in AdminVersions, b \in AdminPatchBodies : Patch(v, b)
    \/ \E s \in Samples : CheckUpdate(SamplingClient, Absent, s)
    \/ Deliver

\* every answer leaves the server; the client keeps issuing requests, and
\* Math.random() is drawn anew for each: every sample value keeps being drawn
SpecSampling ==
    /\ Init /\ [][NextSampling]_vars
    /\ WF_vars(Deliver)
    /\ \A s \in Samples : SF_vars(CheckUpdate(SamplingClient, Absent, s))

\* the release stored under id is the one the resolver picks for the client:
\* the newest admissible one, enabled, with a rollout above 0
StaysNewestAdmissible(id) ==
    LET i == findApplicableRelease(releases, SamplingClient, Absent) IN
    /\ i # 0
    /\ releases[i].id = id
    /\ ~releases[i].disabled
    /\ releases[i].rollout > 0

\* the client's request was answered with no update because the rollout gate
\* excluded it from the release stored under id
ExcludedByGate(id) ==
    /\ Answered /\ http.currentVersion = SamplingClient
    /\ StaysNewestAdmissible(id)
    /\ rolloutExcludes(releases[Picked], http.sample)
    /\ http.resp = NoUpdate

\* the client's request was answered with the release stored under id
OfferedTo(id) ==
    /\ Answered /\ http.currentVersion = SamplingClient
    /\ http.resp.updateAvailable /\ http.resp.id = id

\* C33: a client excluded by the rollout gate from a release with rollout
\* above 0 is not excluded for good: if it keeps checking and samples are
\* drawn fairly, it is later offered that release, or the release has ceased
\* to be the newest admissible one.
C33_ExcludedEventuallyOffered ==
    \A id \in 1..MaxReleases :
        ExcludedByGate(id) ~> (OfferedTo(id) \/ ~StaysNewestAdmissible(id))

\* C33 witness: the client is excluded from the newest admissible release,
\* whose rollout is 50, by a sample of 50 or more.
C33_Witness ==
    \E id \in 1..MaxReleases :
        /\ ExcludedByGate(id)
        /\ releases[Picked].rollout = 50
        /\ http.sample >= 50

----------------------------------------------------------------------------
(* Update resolver: the scan returns the first survivor *)

\* C34: the resolver scans the list newest first and returns the first entry
\* that passes every filter (none when no entry does); it never answers with
\* an entry that lies behind another entry which passes every filter for the
\* same request.
C34_ReturnsFirstSurvivor ==
    Answered =>
        /\ Picked = FirstSurvivor
        /\ \A i, j \in 1..Len(releases) :
              (http.resp.updateAvailable /\ http.resp.id = releases[j].id /\ i < j)
                  => ~SurvivesAllFilters(releases[i], http.currentVersion,
                                         http.appVersion)

----------------------------------------------------------------------------
(* A publish racing a patch on one scope *)

\* releases are published, then one publish and one patch request arrive
\* and their handlers run, each suspended between its read and its write of
\* the releases file
NextRace ==
    \/ \E v \in AdminVersions : race = NoRace /\ Publish(v, 100, Wildcard)
    \/ \E v \in AdminVersions : SaveReleaseRead(v)
    \/ SaveReleaseWrite
    \/ \E v \in AdminVersions, b \in AdminPatchBodies : PatchRead(v, b)
    \/ PatchWrite
    \/ Deliver

SpecRace == Init /\ [][NextRace]_vars

\* both handlers have written the releases file
BothWritten == race.publish.at = "written" /\ race.patch.at = "written"

\* one handler ran from its read to its write before the other read
NotInterleaved ==
    race.order \in {<<"publish read", "publish write", "patch read", "patch write">>,
                    <<"patch read", "patch write", "publish read", "publish write">>}

\* the published release is in the stored list
PublishEffect ==
    \E i \in 1..Len(releases) : releases[i].id = race.publish.release.id

\* the release the patch edited (the first of its version in the list the
\* handler read) is in the stored list with the fields of the request
PatchEffect ==
    LET read == race.patch.rels
        target == read[findIndex(read, race.patch.version)].id
        body == race.patch.body
    IN  \E i \in 1..Len(releases) :
            /\ releases[i].id = target
            /\ "disabled" \in body.fields => releases[i].disabled = body.disabled
            /\ "rollout" \in body.fields => releases[i].rollout = body.rollout

\* what the handler that wrote last made of the list it had read
LastWriterList ==
    IF race.order[Len(race.order)] = "publish write"
    THEN saveRelease(race.publish.rels, race.publish.release)
    ELSE patchRelease(race.patch.rels, race.patch.version, race.patch.body)

\* C35: a publish and a patch of one scope that interleave their reads and
\* writes of the releases file lose an update: the stored list is the last
\* writer's, whole, and lacks the other request's effect (the published
\* release is missing, or the patched field is as before; every patch of the
\* model changes a field). When one request runs to its end before the other
\* starts, the stored list holds both effects.
C35_PublishPatchRace ==
    BothWritten =>
        /\ releases = LastWriterList
        /\ NotInterleaved => (PublishEffect /\ PatchEffect)
        /\ ~NotInterleaved => ~(PublishEffect /\ PatchEffect)

\* C35 witness: the two requests interleaved, the patch wrote last, and the
\* published release is missing from the stored list, which holds the patched
\* field.
C35_Witness ==
    /\ BothWritten /\ ~NotInterleaved
    /\ ~PublishEffect /\ PatchEffect

----------------------------------------------------------------------------
(* Client agent: staging failures and overlapping downloads *)

\* the published release whose package has this content, as a set of versions
\* (empty for altered or unknown content)
VersionsOfPackage(pkg) ==
    {releases[i].version : i \in {j \in 1..Len(releases) : releases[j].id = pkg}}

\* C36: whenever applyPendingUpdate would promote the pending generation (a
\* stage succeeded earlier, and later stages may have failed part-way), the
\* generation it makes current is completely extracted and its contents are
\* the package of the version it records as current.
C36_PartialStageNotPromoted ==
    (prefs.pending_version # Null /\ pendingDir.exists) =>
        LET c == applyPendingUpdate(Install, ApplySteps, TRUE) IN
        /\ c.bundleDir.complete
        /\ c.prefs.current_version \in VersionsOfPackage(c.bundleDir.pkg)

\* the client checks and calls downloadUpdate while releases are published;
\* each call's coroutine runs on its own thread of the IO dispatcher
NextStaging ==
    \/ \E v \in AdminVersions : Publish(v, 100, Wildcard)
    \/ CheckForUpdate(0, TRUE)
    \/ \E j \in JobIds : DownloadUpdateLaunch(j)
    \/ \E j \in JobIds : StageDelete(j)
    \/ \E j \in JobIds : StageWrite(j)
    \/ \E j \in JobIds : StageRecord(j)

SpecStaging == Init /\ [][NextStaging]_vars

\* the coroutine is inside installUpdate
Stages(j) == staging.jobs[j].at \in {"unzip", "extracted"}
\* the packages whose entries lie in lynx_pending
PackagesInPending == {staging.entries[e] : e \in PackageEntries} \ {0}

\* C37: stagings on one installation do not overlap, even when downloadUpdate
\* is called again before the first call has completed: no two coroutines are
\* inside installUpdate at once, lynx_pending never holds entries of two
\* packages, and whenever no staging is running the recorded pending version
\* is the version of the package whose entries, all of them, lie in
\* lynx_pending.
C37_StagingsDoNotOverlap ==
    /\ \A j, k \in JobIds : (Stages(j) /\ Stages(k)) => j = k
    /\ Cardinality(PackagesInPending) <= 1
    /\ ( /\ \A j \in JobIds : staging.jobs[j] = NoJob
         /\ prefs.pending_version # Null )
       => \E p \in PackagesInPending :
             /\ \A e \in PackageEntries : staging.entries[e] = p
             /\ prefs.pending_version \in VersionsOfPackage(p)

----------------------------------------------------------------------------
(* Client agent: a delta package as the downloaded package *)

\* unzip(zipFile, destDir) into the emptied pending directory: every entry of
\* the archive is written under its name, parent directories created. (The
\* manifest entry is written as well, as the file diff-manifest.json, which
\* is none of Paths.)
unzip(package) == writeEntries(EmptyEntries, package.entries, DOMAIN package.entries)

\* the generation that is current after installUpdate staged the package and
\* applyPendingUpdate renamed the pending directory onto lynx_bundles
appliedGeneration(package) == Directory(unzip(package))

\* C38: when the client downloads, stages and applies the delta package an
\* isDiff answer refers to (built from the client's generation, oldDir, to
\* the offered release, newDir), its current generation has the same files
\* with the same contents as the release's full tree: unchanged files are
\* present, deleted files are gone.
C38_DeltaAppliedIsFullTree ==
    delta.package.exists =>
        appliedGeneration(delta.package).entries = delta.newDir.entries

----------------------------------------------------------------------------
(* Client agent: version records and directories *)

\* C39: in every reachable state of the installation, crashes inside
\* applyPendingUpdate and failed directory moves included, the recorded
\* current version names the generation that is in the bundle directory (the
\* complete package of a release of that version), and a pending version is
\* recorded only while the pending directory exists.
C39_RecordsNameDirectories ==
    /\ prefs.current_version # Null =>
          /\ bundleDir.exists /\ bundleDir.complete
          /\ prefs.current_version \in VersionsOfPackage(bundleDir.pkg)
    /\ prefs.pending_version # Null => pendingDir.exists

----------------------------------------------------------------------------
(* Publish: the stored rollout *)

\* C40: a release published with a requested rollout r is stored with
\* rollout r, for every r of 0..100, 0 included (such a release is offered to
\* no request until it is patched).
C40_PublishStoresRequestedRollout ==
    [][ \A v \in ReleaseVersions, r \in Rollouts, t \in TargetRanges :
            Publish(v, r, t) => releases'[1].rollout = r ]_vars

====
